---- MODULE Spec2Model ----
(***************************************************************************)
(* Model of src/attributes.rs (inkwell): the Attribute handle over a       *)
(* native LLVMAttributeRef and the AttributeLoc flat-index encoding.       *)
(*                                                                         *)
(* The native attribute library is modelled as a heap of immutable         *)
(* attribute objects; a handle is the address it wraps (0 is the null      *)
(* pointer).  Every wrapper method is an operator that returns the         *)
(* outcome of the call (a returned value or a panic) together with the     *)
(* native entry points it invoked, in order; every action performs one     *)
(* call and records it in `last`.                                          *)
(*                                                                         *)
(* u32 and u64 values whose width matters are kept at full width as        *)
(* tuples of 16-bit limbs, most significant limb first.                    *)
(***************************************************************************)
EXTENDS Naturals, Sequences, FiniteSets, TLC

VARIABLES
    llvm_version,      \* LLVM major version the crate is built against
    debug_assertions,  \* cfg(debug_assertions) of the build
    heap,              \* native attribute objects, by address 1..Len(heap)
    handles,           \* addresses wrapped by the Attribute handles that exist
    last               \* the last call: operation, argument, outcome, native calls

vars == <<llvm_version, debug_assertions, heap, handles, last>>

---------------------------------------------------------------------------
(* Records.  Every record below is written with its fields in one fixed     *)
(* order: operation, argument, outcome, native calls for a call; tag, then  *)
(* value for an outcome.                                                    *)

\* the record of one call, from the outcome r of the method
Call(op, arg, r) == [op |-> op, arg |-> arg, out |-> r.out, calls |-> r.calls]

\* outcomes of a call
Ret(v) == [tag |-> "ret", val |-> v]
Panic(why) == [tag |-> "panic", val |-> why]
Done(out, calls) == [out |-> out, calls |-> calls]

\* the same state function, with the operation and the kind of outcome of the
\* last call ahead of the values whose type depends on them
callvars == <<last.op, last.out.tag, vars>>

---------------------------------------------------------------------------
(* Bounds of the model *)

MaxAttrs == 1          \* native attribute objects created in one run
ParamSpan == 2         \* parameter indices sampled next to 0 and next to u32::MAX

---------------------------------------------------------------------------
(* Fixed-width integers *)

Limb == 2 ^ 16

U32(hi, lo) == <<hi, lo>>
U32Zero == U32(0, 0)
U32One == U32(0, 1)
U32Two == U32(0, 2)
U32Max == U32(Limb - 1, Limb - 1)

U32Le(a, b) == a[1] < b[1] \/ (a[1] = b[1] /\ a[2] <= b[2])

\* a + b and a - b modulo 2^32, with the overflow flag of the operation
U32Add(a, b) ==
    LET lo == a[2] + b[2]
        hi == a[1] + b[1] + (lo \div Limb)
    IN  [val |-> U32(hi % Limb, lo % Limb), overflow |-> hi >= Limb]

U32Sub(a, b) ==
    LET borrow == IF a[2] < b[2] THEN 1 ELSE 0
        lo == (a[2] + Limb * borrow) - b[2]
        under == a[1] < b[1] + borrow
        hi == (a[1] + (IF under THEN Limb ELSE 0)) - (b[1] + borrow)
    IN  [val |-> U32(hi, lo), overflow |-> under]

U64(a, b, c, d) == <<a, b, c, d>>

---------------------------------------------------------------------------
(* The null pointer *)

Null == 0

---------------------------------------------------------------------------
(* Inputs *)

Versions == {11, 12}

\* byte strings, as sequences of byte values
Foobar == <<102, 111, 111, 98, 97, 114>>
Align == <<97, 108, 105, 103, 110>>
Builtin == <<98, 117, 105, 108, 116, 105, 110>>
NameSamples ==
    {Foobar, Align, Builtin, <<>>, SubSeq(Align, 1, 4),
     Align \o <<0>>, Align \o <<0, 120>>, <<0>> \o Align}

KeySamples == {<<107>>, <<107, 0, 120>>, <<0, 107>>}
ValueSamples == {<<>>, <<118>>, <<118, 0, 119>>}

KindSamples == {0, 5}
EnumValueSamples ==
    {U64(0, 0, 0, 0), U64(0, 0, 0, 10), U64(0, 1, 0, 10),
     U64(Limb - 1, Limb - 1, Limb - 1, Limb - 1)}

\* native types, by LLVMTypeRef, with the kind the native library reports
TypeRefs == {"i32", "i64", "f32"}
LLVMGetTypeKind(ty) == IF ty = "f32" THEN "LLVMFloatTypeKind" ELSE "LLVMIntegerTypeKind"

ParamSamples ==
    {U32(0, n) : n \in 0..ParamSpan}
        \cup {U32Sub(U32Max, U32(0, n)).val : n \in 0..ParamSpan}
        \cup {U32(0, Limb - 1), U32(1, 0)}
LocSamples ==
    {[tag |-> "Return"], [tag |-> "Function"]}
        \cup {[tag |-> "Param", index |-> i] : i \in ParamSamples}

---------------------------------------------------------------------------
(* The native attribute library (llvm_sys::core) *)

EnumObj(k, v) == [shape |-> "enum", kind |-> k, value |-> v]
StringObj(K, V) == [shape |-> "string", value |-> V, key |-> K]
TypeObj(k, ty) == [shape |-> "type", kind |-> k, type |-> ty]

\* a null LLVMAttributeRef is the empty attribute: it has none of the shapes
Shape(p) == IF p = Null THEN "none" ELSE heap[p].shape

LLVMIsEnumAttribute(p) == IF Shape(p) = "enum" THEN 1 ELSE 0
LLVMIsStringAttribute(p) == IF Shape(p) = "string" THEN 1 ELSE 0
LLVMIsTypeAttribute(p) == IF Shape(p) = "type" THEN 1 ELSE 0

\* the builtin kind table belongs to the native library and its ids change
\* with the library: before LLVM 12 the ids the documentation gives, from
\* LLVM 12 on the ids libLLVM 14 reports
BuiltinKinds ==
    IF llvm_version < 12
    THEN (Align :> 1) @@ (Builtin :> 5)
    ELSE (Align :> 73) @@ (Builtin :> 3)

\* looks up exactly the `len` bytes at `ptr`; 0 when there is no such kind
LLVMGetEnumAttributeKindForName(ptr, len) ==
    LET name == SubSeq(ptr, 1, len)
    IN  IF name \in DOMAIN BuiltinKinds THEN BuiltinKinds[name] ELSE 0

\* the highest kind id of the table, with the same dependence on the library
LLVMGetLastEnumAttributeKind == IF llvm_version < 12 THEN 56 ELSE 79

\* the getters below are only defined on the shape they read; the wrappers
\* reach them on that shape only, the other branch is what a misuse reads
LLVMGetEnumAttributeKind(p) ==
    IF Shape(p) \in {"enum", "type"} THEN heap[p].kind ELSE 0
LLVMGetEnumAttributeValue(p) ==
    IF Shape(p) = "enum" THEN heap[p].value ELSE U64(0, 0, 0, 0)
\* the key and value are stored with a terminating zero byte; the call
\* returns the buffer and, through the out-parameter, the length
LLVMGetStringAttributeKind(p) ==
    IF Shape(p) = "string"
    THEN [ptr |-> heap[p].key \o <<0>>, length |-> Len(heap[p].key)]
    ELSE [ptr |-> <<0>>, length |-> 0]
LLVMGetStringAttributeValue(p) ==
    IF Shape(p) = "string"
    THEN [ptr |-> heap[p].value \o <<0>>, length |-> Len(heap[p].value)]
    ELSE [ptr |-> <<0>>, length |-> 0]
LLVMGetTypeAttributeValue(p) ==
    IF Shape(p) = "type" THEN heap[p].type ELSE "i32"

---------------------------------------------------------------------------
(* std::ffi::CStr and crate::types::AnyTypeEnum *)

\* index of the first zero byte of a buffer that contains one
RECURSIVE FirstNul(_, _)
FirstNul(buf, i) == IF buf[i] = 0 THEN i ELSE FirstNul(buf, i + 1)

\* CStr::from_ptr: the bytes up to, not including, the first zero byte
CStrFromPtr(buf) == SubSeq(buf, 1, FirstNul(buf, 1) - 1)

\* AnyTypeEnum::new: the variant of the type's kind, wrapping the reference
AnyTypeEnumNew(ty) ==
    [ty |-> ty,
     variant |-> IF LLVMGetTypeKind(ty) = "LLVMFloatTypeKind" THEN "FloatType" ELSE "IntType"]

---------------------------------------------------------------------------
(* impl Attribute *)

\* #[llvm_versions(12.0..=latest)] on is_type, get_enum_kind_id, get_type_value
Defined(op) ==
    IF op \in {"is_type", "get_enum_kind_id", "get_type_value"}
    THEN llvm_version >= 12
    ELSE TRUE

\* variant of new without the null check
new_unchecked(attribute) == Done(Ret(attribute), <<>>)

\* Attribute::new: the null check is a debug_assert!
new(attribute) ==
    IF debug_assertions /\ attribute = Null
    THEN Done(Panic("debug_assert"), <<>>)
    ELSE Done(Ret(attribute), <<>>)

is_enum(h) == LLVMIsEnumAttribute(h) = 1
is_string(h) == LLVMIsStringAttribute(h) = 1
is_type(h) == LLVMIsTypeAttribute(h) = 1

\* variant of get_named_enum_kind_id that measures the name as a C string
get_named_enum_kind_id_strlen(name) ==
    Done(Ret(LLVMGetEnumAttributeKindForName(name, Len(CStrFromPtr(name \o <<0>>)))),
         <<"LLVMGetEnumAttributeKindForName">>)

get_named_enum_kind_id(name) ==
    Done(Ret(LLVMGetEnumAttributeKindForName(name, Len(name))),
         <<"LLVMGetEnumAttributeKindForName">>)

\* variant of get_enum_kind_id_is_valid with the pre-12 body on every version
get_enum_kind_id_is_valid_enum_only(h) ==
    Done(Ret(is_enum(h)), <<"LLVMIsEnumAttribute">>)

\* the two version-selected bodies of get_enum_kind_id_is_valid; `||` does
\* not evaluate is_type when is_enum holds
get_enum_kind_id_is_valid(h) ==
    IF llvm_version < 12
    THEN Done(Ret(is_enum(h)), <<"LLVMIsEnumAttribute">>)
    ELSE IF is_enum(h)
         THEN Done(Ret(TRUE), <<"LLVMIsEnumAttribute">>)
         ELSE Done(Ret(is_type(h)), <<"LLVMIsEnumAttribute", "LLVMIsTypeAttribute">>)

get_enum_kind_id(h) ==
    LET valid == get_enum_kind_id_is_valid(h)
    IN  IF ~valid.out.val
        THEN Done(Panic("assert"), valid.calls)
        ELSE Done(Ret(LLVMGetEnumAttributeKind(h)),
                  valid.calls \o <<"LLVMGetEnumAttributeKind">>)

get_last_enum_kind_id ==
    Done(Ret(LLVMGetLastEnumAttributeKind), <<"LLVMGetLastEnumAttributeKind">>)

\* variant of get_enum_value without the shape assertion
get_enum_value_unchecked(h) ==
    Done(Ret(LLVMGetEnumAttributeValue(h)), <<"LLVMGetEnumAttributeValue">>)

get_enum_value(h) ==
    IF ~is_enum(h)
    THEN Done(Panic("assert"), <<"LLVMIsEnumAttribute">>)
    ELSE Done(Ret(LLVMGetEnumAttributeValue(h)),
              <<"LLVMIsEnumAttribute", "LLVMGetEnumAttributeValue">>)

\* the length the native call reports is dropped; the result is the CStr
\* that starts at the returned pointer
get_string_kind_id(h) ==
    IF ~is_string(h)
    THEN Done(Panic("assert"), <<"LLVMIsStringAttribute">>)
    ELSE Done(Ret(CStrFromPtr(LLVMGetStringAttributeKind(h).ptr)),
              <<"LLVMIsStringAttribute", "LLVMGetStringAttributeKind">>)

get_string_value(h) ==
    IF ~is_string(h)
    THEN Done(Panic("assert"), <<"LLVMIsStringAttribute">>)
    ELSE Done(Ret(CStrFromPtr(LLVMGetStringAttributeValue(h).ptr)),
              <<"LLVMIsStringAttribute", "LLVMGetStringAttributeValue">>)

get_type_value(h) ==
    IF ~is_type(h)
    THEN Done(Panic("assert"), <<"LLVMIsTypeAttribute">>)
    ELSE Done(Ret(AnyTypeEnumNew(LLVMGetTypeAttributeValue(h))),
              <<"LLVMIsTypeAttribute", "LLVMGetTypeAttributeValue">>)

---------------------------------------------------------------------------
(* impl AttributeLoc *)

\* `index + 1` on u32: an overflow panics where overflow checks are compiled
\* in (they follow debug_assertions) and wraps where they are not
CheckedIncrement(index) ==
    LET sum == U32Add(index, U32One)
    IN  IF sum.overflow /\ debug_assertions
        THEN Panic("overflow")
        ELSE Ret(sum.val)

\* variant of get_index that returns the parameter index itself
get_index_no_offset(loc) ==
    CASE loc.tag = "Return" -> Done(Ret(U32Zero), <<>>)
      [] loc.tag = "Param" ->
            IF ~U32Le(loc.index, U32Sub(U32Max, U32Two).val)
            THEN Done(Panic("assert"), <<>>)
            ELSE Done(Ret(loc.index), <<>>)
      [] loc.tag = "Function" -> Done(Ret(U32Max), <<>>)

\* variant of get_index without the bound assertion
get_index_unchecked(loc) ==
    CASE loc.tag = "Return" -> Done(Ret(U32Zero), <<>>)
      [] loc.tag = "Param" -> Done(CheckedIncrement(loc.index), <<>>)
      [] loc.tag = "Function" -> Done(Ret(U32Max), <<>>)

get_index(loc) ==
    CASE loc.tag = "Return" -> Done(Ret(U32Zero), <<>>)
      [] loc.tag = "Param" ->
            IF ~U32Le(loc.index, U32Sub(U32Max, U32Two).val)
            THEN Done(Panic("assert"), <<>>)
            ELSE Done(CheckedIncrement(loc.index), <<>>)
      [] loc.tag = "Function" -> Done(Ret(U32Max), <<>>)

---------------------------------------------------------------------------
(* The state machine *)

Init ==
    /\ llvm_version \in Versions
    /\ debug_assertions \in BOOLEAN
    /\ heap = <<>>
    /\ handles = {}
    /\ last = [op |-> "none", arg |-> Null, out |-> [tag |-> "none", val |-> Null],
               calls |-> <<>>]

\* Context::create_*_attribute: the native library allocates the object and
\* the address it returns is wrapped by Attribute::new
Create(op, arg, obj, native) ==
    /\ Len(heap) < MaxAttrs
    /\ heap' = Append(heap, obj)
    /\ LET r == new(Len(heap) + 1)
       IN  /\ handles' = IF r.out.tag = "ret" THEN handles \cup {r.out.val} ELSE handles
           /\ last' = Call(op, arg, Done(r.out, <<native>>))
    /\ UNCHANGED <<llvm_version, debug_assertions>>

CreateEnumAttribute(k, v) ==
    Create("create_enum_attribute", <<k, v>>, EnumObj(k, v), "LLVMCreateEnumAttribute")

CreateStringAttribute(K, V) ==
    Create("create_string_attribute", <<K, V>>, StringObj(K, V), "LLVMCreateStringAttribute")

CreateTypeAttribute(k, ty) ==
    /\ llvm_version >= 12
    /\ Create("create_type_attribute", <<k, ty>>, TypeObj(k, ty), "LLVMCreateTypeAttribute")

\* Attribute::new on a pointer a native query returned: an existing
\* attribute, or null when the query found none
New(ptr) ==
    /\ LET r == new(ptr)
       IN  /\ handles' = IF r.out.tag = "ret" THEN handles \cup {r.out.val} ELSE handles
           /\ last' = Call("new", ptr, r)
    /\ UNCHANGED <<llvm_version, debug_assertions, heap>>

\* a method call on an existing handle; nothing but the call record changes
Method(op, h, r) ==
    /\ h \in handles
    /\ Defined(op)
    /\ last' = Call(op, h, r)
    /\ UNCHANGED <<llvm_version, debug_assertions, heap, handles>>

IsEnum(h) == Method("is_enum", h, Done(Ret(is_enum(h)), <<"LLVMIsEnumAttribute">>))
IsString(h) == Method("is_string", h, Done(Ret(is_string(h)), <<"LLVMIsStringAttribute">>))
IsType(h) == Method("is_type", h, Done(Ret(is_type(h)), <<"LLVMIsTypeAttribute">>))
GetEnumKindId(h) == Method("get_enum_kind_id", h, get_enum_kind_id(h))
GetEnumValue(h) == Method("get_enum_value", h, get_enum_value(h))
\* variant of GetStringKindId that takes ownership of the native buffer
\* (CString::from_raw) and so releases the key when the result is dropped
GetStringKindIdOwning(h) ==
    /\ h \in handles
    /\ last' = Call("get_string_kind_id", h, get_string_kind_id(h))
    /\ heap' = IF is_string(h) THEN [heap EXCEPT ![h].key = <<>>] ELSE heap
    /\ UNCHANGED <<llvm_version, debug_assertions, handles>>

GetStringKindId(h) == Method("get_string_kind_id", h, get_string_kind_id(h))
GetStringValue(h) == Method("get_string_value", h, get_string_value(h))
GetTypeValue(h) == Method("get_type_value", h, get_type_value(h))

\* the associated functions take no handle
GetNamedEnumKindId(name) ==
    /\ last' = Call("get_named_enum_kind_id", name, get_named_enum_kind_id(name))
    /\ UNCHANGED <<llvm_version, debug_assertions, heap, handles>>

GetLastEnumKindId ==
    /\ last' = Call("get_last_enum_kind_id", Null, get_last_enum_kind_id)
    /\ UNCHANGED <<llvm_version, debug_assertions, heap, handles>>

GetIndex(loc) ==
    /\ last' = Call("get_index", loc, get_index(loc))
    /\ UNCHANGED <<llvm_version, debug_assertions, heap, handles>>

Pointers == {Null} \cup (1..Len(heap))

Next ==
    \/ \E k \in KindSamples, v \in EnumValueSamples : CreateEnumAttribute(k, v)
    \/ \E K \in KeySamples, V \in ValueSamples : CreateStringAttribute(K, V)
    \/ \E k \in KindSamples, ty \in TypeRefs : CreateTypeAttribute(k, ty)
    \/ \E ptr \in Pointers : New(ptr)
    \/ \E h \in handles : IsEnum(h)
    \/ \E h \in handles : IsString(h)
    \/ \E h \in handles : IsType(h)
    \/ \E h \in handles : GetEnumKindId(h)
    \/ \E h \in handles : GetEnumValue(h)
    \/ \E h \in handles : GetStringKindId(h)
    \/ \E h \in handles : GetStringValue(h)
    \/ \E h \in handles : GetTypeValue(h)
    \/ \E name \in NameSamples : GetNamedEnumKindId(name)
    \/ GetLastEnumKindId
    \/ \E loc \in LocSamples : GetIndex(loc)

Spec == Init /\ [][Next]_vars

---------------------------------------------------------------------------
(* Properties *)

Range(seq) == {seq[i] : i \in 1..Len(seq)}
Returned(c) == c.out.tag = "ret"
Panicked(c) == c.out.tag = "panic"
Returns(out, v) == out.tag = "ret" /\ out.val = v
Aborts(out, why) == out.tag = "panic" /\ out.val = why

\* the operations that take an existing handle, and all read-only operations
MethodOps ==
    {"is_enum", "is_string", "is_type", "get_enum_kind_id", "get_enum_value",
     "get_string_kind_id", "get_string_value", "get_type_value"}
ReadOps == MethodOps \cup {"get_named_enum_kind_id", "get_last_enum_kind_id", "get_index"}

\* i <= u32::MAX - 2, and i + 1 for such an i, written on the limbs
Encodable(i) == i[1] < Limb - 1 \/ i[2] <= Limb - 3
Successor(i) == IF i[2] < Limb - 1 THEN <<i[1], i[2] + 1>> ELSE <<i[1] + 1, 0>>

\* C1 (first part): get_index returns 0 for Return, u32::MAX for Function and
\* i + 1 for Param(i) with i <= u32::MAX - 2, which is neither 0 nor u32::MAX.
C1_Encoding(c) ==
    c.op = "get_index" =>
        /\ c.arg.tag = "Return" => Returned(c) /\ c.out.val = <<0, 0>>
        /\ c.arg.tag = "Function" => Returned(c) /\ c.out.val = <<Limb - 1, Limb - 1>>
        /\ c.arg.tag = "Param" /\ Encodable(c.arg.index) =>
              /\ Returned(c)
              /\ c.out.val = Successor(c.arg.index)
              /\ c.out.val # <<0, 0>>
              /\ c.out.val # <<Limb - 1, Limb - 1>>

\* C1 (second part): two distinct locations that both encode get distinct indices.
C1_Distinct(c, d) ==
    /\ c.op = "get_index" /\ d.op = "get_index"
    /\ Returned(c) /\ Returned(d)
    /\ c.arg # d.arg
    => c.out.val # d.out.val

\* C1: AttributeLoc::get_index encodes Return as 0, Function as u32::MAX and
\* Param(i) as i + 1 for every i <= u32::MAX - 2; any two distinct locations
\* encoded one after the other get distinct indices, and no Param(i) encodes
\* to 0 or to u32::MAX.
C1_GetIndexEncoding == [][C1_Encoding(last') /\ C1_Distinct(last, last')]_callvars

C1_Witness ==
    /\ last.op = "get_index"
    /\ last.arg = [tag |-> "Param", index |-> <<Limb - 1, Limb - 3>>]
    /\ Returned(last)
    /\ last.out.val = <<Limb - 1, Limb - 2>>

\* C2: get_index on Param(i) with i > u32::MAX - 2 fails its assertion and
\* returns nothing (no wrapped value, no overflow panic); Param(u32::MAX - 2)
\* is the largest parameter index that encodes, to u32::MAX - 1.
C2_GetIndexBound ==
    last.op = "get_index" /\ last.arg.tag = "Param" =>
        /\ ~Encodable(last.arg.index) => Aborts(last.out, "assert")
        /\ Returned(last) => Encodable(last.arg.index)
        /\ last.arg.index = <<Limb - 1, Limb - 3>> =>
              Returned(last) /\ last.out.val = <<Limb - 1, Limb - 2>>

C2_Witness ==
    /\ last.op = "get_index"
    /\ last.arg = [tag |-> "Param", index |-> <<Limb - 1, Limb - 1>>]
    /\ Aborts(last.out, "assert")

\* the shape an accessor requires and the native getter it reads with
Required(op) ==
    CASE op = "get_enum_value" -> "enum"
      [] op \in {"get_string_kind_id", "get_string_value"} -> "string"
      [] op = "get_type_value" -> "type"
Getter(op) ==
    CASE op = "get_enum_value" -> "LLVMGetEnumAttributeValue"
      [] op = "get_string_kind_id" -> "LLVMGetStringAttributeKind"
      [] op = "get_string_value" -> "LLVMGetStringAttributeValue"
      [] op = "get_type_value" -> "LLVMGetTypeAttributeValue"

\* C3: get_enum_value on a non-enum attribute, get_string_kind_id and
\* get_string_value on a non-string attribute and get_type_value on a non-type
\* attribute fail their assertion, and the native getter is not called.
C3_WrongShapeAborts ==
    /\ last.op \in {"get_enum_value", "get_string_kind_id", "get_string_value",
                     "get_type_value"}
    /\ Shape(last.arg) # Required(last.op)
    => /\ Aborts(last.out, "assert")
       /\ Getter(last.op) \notin Range(last.calls)

C3_Witness ==
    /\ last.op = "get_enum_value"
    /\ Shape(last.arg) = "string"
    /\ Aborts(last.out, "assert")

\* C4: get_enum_kind_id exists on every library version and returns the kind
\* id of every enum attribute, and of every type attribute where type
\* attributes are supported; on a string attribute it aborts.
C4_KindIdOnEveryVersion ==
    \A h \in handles :
        /\ Shape(h) = "enum" \/ (llvm_version >= 12 /\ Shape(h) = "type") =>
              /\ Defined("get_enum_kind_id")
              /\ Returns(get_enum_kind_id(h).out, heap[h].kind)
        /\ Shape(h) = "string" =>
              /\ Defined("get_enum_kind_id")
              /\ Aborts(get_enum_kind_id(h).out, "assert")

\* C5: for a string attribute built from key K and value V, is_string() is
\* true, get_string_kind_id() returns exactly K and get_string_value()
\* returns exactly V, zero bytes included.
C5_StringRoundTrip ==
    last.op \in MethodOps /\ Shape(last.arg) = "string" =>
        /\ last.op = "is_string" => Returned(last) /\ last.out.val = TRUE
        /\ last.op = "get_string_kind_id" =>
              Returned(last) /\ last.out.val = heap[last.arg].key
        /\ last.op = "get_string_value" =>
              Returned(last) /\ last.out.val = heap[last.arg].value

\* C6: for an enum attribute built from kind id K and value V, is_enum() is
\* true, is_string() and is_type() are false, get_enum_kind_id() returns K
\* and get_enum_value() returns exactly V.
C6_EnumRoundTrip ==
    \A h \in handles : Shape(h) = "enum" =>
        /\ is_enum(h) /\ ~is_string(h)
        /\ Defined("is_type") => ~is_type(h)
        /\ Defined("get_enum_kind_id")
        /\ Returns(get_enum_kind_id(h).out, heap[h].kind)
        /\ Returns(get_enum_value(h).out, heap[h].value)

\* the AnyTypeEnum a type has in the type system
AnyTypeOf(ty) ==
    [ty |-> ty, variant |-> IF ty \in {"i32", "i64"} THEN "IntType" ELSE "FloatType"]

\* C7: with type-attribute support, for a type attribute built from kind id K
\* and type T, is_type() is true, get_enum_kind_id() returns K without
\* aborting and get_type_value() equals T and differs from every other type.
C7_TypeRoundTrip ==
    /\ llvm_version >= 12
    /\ last.op \in MethodOps
    /\ Shape(last.arg) = "type"
    => /\ last.op = "is_type" => Returned(last) /\ last.out.val = TRUE
       /\ last.op = "is_enum" => Returned(last) /\ last.out.val = FALSE
       /\ last.op = "get_enum_kind_id" =>
             Returned(last) /\ last.out.val = heap[last.arg].kind
       /\ last.op = "get_type_value" =>
             /\ Returned(last)
             /\ last.out.val = AnyTypeOf(heap[last.arg].type)
             /\ \A ty \in TypeRefs \ {heap[last.arg].type} : last.out.val # AnyTypeOf(ty)

C7_Witness ==
    /\ last.op = "get_enum_kind_id"
    /\ Shape(last.arg) = "type"
    /\ Returned(last)
    /\ last.out.val = 5

\* C8: in every build, Attribute::new on a null pointer halts and yields no
\* handle, every handle wraps a non-null reference, and no accessor is
\* invoked on a null reference.
C8_NeverNull ==
    /\ Null \notin handles
    /\ last.op = "new" /\ last.arg = Null => Panicked(last)
    /\ last.op \in MethodOps => last.arg # Null

\* C8 (amended): in a build with debug assertions, Attribute::new on a null
\* pointer halts and yields no handle, every handle wraps a non-null
\* reference and no accessor is invoked on a null reference; in a build
\* without them the check is compiled out and new(null) returns a handle
\* that wraps the null pointer.
C8_NeverNullInDebugBuilds ==
    /\ debug_assertions =>
          /\ Null \notin handles
          /\ last.op = "new" /\ last.arg = Null => Aborts(last.out, "debug_assert")
          /\ last.op \in MethodOps => last.arg # Null
    /\ ~debug_assertions /\ last.op = "new" /\ last.arg = Null =>
          /\ Returned(last) /\ last.out.val = Null
          /\ Null \in handles

C8_Witness ==
    /\ debug_assertions
    /\ last.op = "new"
    /\ last.arg = Null
    /\ Panicked(last)

\* what the call recorded in c returns when it is made again in this state
Repeat(c) ==
    CASE c.op = "is_enum" -> Ret(is_enum(c.arg))
      [] c.op = "is_string" -> Ret(is_string(c.arg))
      [] c.op = "is_type" -> Ret(is_type(c.arg))
      [] c.op = "get_enum_kind_id" -> get_enum_kind_id(c.arg).out
      [] c.op = "get_enum_value" -> get_enum_value(c.arg).out
      [] c.op = "get_string_kind_id" -> get_string_kind_id(c.arg).out
      [] c.op = "get_string_value" -> get_string_value(c.arg).out
      [] c.op = "get_type_value" -> get_type_value(c.arg).out
      [] c.op = "get_named_enum_kind_id" -> get_named_enum_kind_id(c.arg).out
      [] c.op = "get_last_enum_kind_id" -> get_last_enum_kind_id.out
      [] c.op = "get_index" -> get_index(c.arg).out

\* C9: a classification or accessor call, aborting or not, leaves every
\* attribute's shape, kind and payload and the set of wrapped references
\* unchanged, and the same call made again returns the same result.
C9_ReadsChangeNothing ==
    [][last'.op \in ReadOps =>
          /\ heap' = heap
          /\ handles' = handles
          /\ llvm_version' = llvm_version /\ debug_assertions' = debug_assertions
          /\ Repeat(last)' = last'.out]_callvars

C9_Witness ==
    /\ last.op = "get_string_kind_id"
    /\ Shape(last.arg) = "string"
    /\ Returned(last)
    /\ Len(heap[last.arg].key) > 0

\* C10: get_named_enum_kind_id returns 0 for a name that is not a builtin
\* kind name and a non-zero id, no higher than the last kind id of the
\* library, for one that is, compared on the exact bytes of the name; it
\* never aborts, and calls one native lookup that takes no attribute.
C10_NamedKindId ==
    last.op = "get_named_enum_kind_id" =>
        /\ Returned(last)
        /\ last.arg \in {Align, Builtin} <=> last.out.val # 0
        /\ last.out.val <= (IF llvm_version < 12 THEN 56 ELSE 79)
        /\ last.calls = <<"LLVMGetEnumAttributeKindForName">>

C10_Witness ==
    /\ last.op = "get_named_enum_kind_id"
    /\ last.arg = Align \o <<0>>
    /\ Returned(last)
    /\ last.out.val = 0

====
